---- MODULE Spec2Model ----
(***************************************************************************)
(* State-machine model of the trading and negotiation engine of            *)
(* src/server.js: the team ledger, execute_trade, the bilateral trade      *)
(* request protocol with its expiry timeouts, the circuit limit guard, the *)
(* short-selling freeze with its forced covers, and the phase countdown.   *)
(*                                                                         *)
(* Every socket handler and every timer callback is one action: node runs  *)
(* each of them to completion on a single thread.                          *)
(***************************************************************************)
EXTENDS Integers, Sequences, FiniteSets, TLC

(***************************************************************************)
(* Bounds of the model.                                                    *)
(***************************************************************************)
\* teams that exist at the same time
MaxTeams == 2
\* records in the global trade log
MaxTrades == 2
\* trade requests ever created (request ids are never reused)
MaxRequests == 2
\* largest duration, in ticks, handed to start_phase
MaxTime == 2
\* largest quantity handed to execute_trade and send_trade_request
MaxQuantity == 1
\* requests pending at the same time, where a specification bounds them
MaxPending == 1

(***************************************************************************)
(* Inputs the handlers are called with.  The server validates none of      *)
(* them, so the sets hold the edge values a client can send (quantity 0, a *)
(* negative amount, an unknown team, symbol or action).                    *)
(***************************************************************************)
TeamIds == 1..MaxTeams
RequestIds == 1..MaxRequests
Symbols == {"HDFCBANK", "TATAMOTORS"}
UnknownSymbol == "NOSUCH"
Quantities == 0..MaxQuantity
\* quantities with the sign a client is free to send
SignedQuantities == -1..MaxQuantity
\* prices a request quotes: 920 and 1080 are the edges of the band around
\* 1000, 1100 is 10% above it (the band around 1100 is 1012 to 1188)
Prices == {920, 1080, 1100}
\* prices the admin sets with update_stock_price
StockPrices == {1000, 1100}
StartingBalances == {2000}
Amounts == {-2500, 500}
TradeActions == {"buy", "sell", "short_sell", "cover_short", "hold"}
RequestActions == {"buy", "sell"}
Phases == {"waiting", "portfolio_allocation", "trading", "ended"}
Durations == 0..MaxTime
Rounds == 0..MaxTime
\* tradingRoundTime as a client is free to send it: 0 stands for an absent
\* field too, and a negative number is truthy
RoundTimes == -1..MaxTime

VARIABLES
    teams,            \* gameState.teams: team id -> team
    stocks,           \* gameState.stocks: symbol -> price
    trades,           \* gameState.trades: the global log, newest first
    tradeRequests,    \* gameState.tradeRequests: request id -> request
    gameConfig,       \* gameState.gameConfig
    timerInterval,    \* the handle of the countdown interval (0 is null)
    activeIntervals,  \* interval handles the event loop still fires
    requestTimers,    \* keys of the requestTimers map
    pendingTimeouts,  \* expiry timeouts the event loop will still fire
    notifications,    \* request id -> events emitted to the two teams about it
    countdowns,       \* runs of handleTimerEnd since the last start_phase or reset
    gameOver,         \* the countdown has ended the game and no reset has run since
    last              \* the handler that ran last and what its callback got

vars == <<teams, stocks, trades, tradeRequests, gameConfig, timerInterval,
          activeIntervals, requestTimers, pendingTimeouts, notifications,
          countdowns, gameOver, last>>

(***************************************************************************)
(* JavaScript numbers and objects.  A quantity in a book is a number or    *)
(* NaN (undefined - q); a book (holdings, shortHoldings) is an object,     *)
(* which keeps its keys in insertion order.                                *)
(***************************************************************************)
NaN == [nan |-> TRUE, n |-> 0]

Num(n) == [nan |-> FALSE, n |-> n]

Has(book, symbol) == \E i \in 1..Len(book) : book[i].symbol = symbol

IndexOf(book, symbol) == CHOOSE i \in 1..Len(book) : book[i].symbol = symbol

\* book[symbol] || 0 : undefined, 0 and NaN are falsy
OrZero(book, symbol) ==
    IF Has(book, symbol) /\ ~book[IndexOf(book, symbol)].qty.nan
    THEN book[IndexOf(book, symbol)].qty.n
    ELSE 0

\* book[symbol] = v
Put(book, symbol, v) ==
    IF Has(book, symbol)
    THEN [book EXCEPT ![IndexOf(book, symbol)].qty = v]
    ELSE Append(book, [symbol |-> symbol, qty |-> v])

\* the value of book[symbol] - q : NaN when book[symbol] is undefined or NaN
Minus(book, symbol, q) ==
    IF Has(book, symbol) /\ ~book[IndexOf(book, symbol)].qty.nan
    THEN Num(book[IndexOf(book, symbol)].qty.n - q)
    ELSE NaN

\* delete book[symbol]
Delete(book, symbol) == SelectSeq(book, LAMBDA e : e.symbol # symbol)

\* if (book[symbol] === 0) delete book[symbol]
DeleteIfZero(book, symbol) ==
    IF Has(book, symbol) /\ book[IndexOf(book, symbol)].qty = Num(0)
    THEN Delete(book, symbol)
    ELSE book

(***************************************************************************)
(* Records.                                                                *)
(***************************************************************************)
InitialStocks == [s \in Symbols |-> IF s = "HDFCBANK" THEN 1000 ELSE 400]

InitialConfig ==
    [phase |-> "waiting", currentRound |-> 0, totalRounds |-> 0,
     timeRemaining |-> 0, portfolioAllocationTime |-> 600,
     tradingRoundTime |-> 600, circuitLimitFrozen |-> FALSE,
     marketTradingEnabled |-> FALSE, shortSellingFrozen |-> FALSE]

NewTeam(startingBalance) ==
    [cash |-> startingBalance, holdings |-> <<>>, shortHoldings |-> <<>>,
     trades |-> <<>>]

\* counterparty 0: the record has no counterparty (a market trade)
Trade(teamId, action, symbol, quantity, price, counterparty) ==
    [teamId |-> teamId, action |-> action, symbol |-> symbol,
     quantity |-> quantity, price |-> price, counterparty |-> counterparty]

\* what a handler reports: the event it handled, the callback's success and
\* error, and the request id the event is about (0: none)
Result(event, success, error, requestId) ==
    [event |-> event, success |-> success, error |-> error,
     requestId |-> requestId]

Init ==
    /\ teams = <<>>
    /\ stocks = InitialStocks
    /\ trades = <<>>
    /\ tradeRequests = <<>>
    /\ gameConfig = InitialConfig
    /\ timerInterval = 0
    /\ activeIntervals = {}
    /\ requestTimers = {}
    /\ pendingTimeouts = {}
    /\ notifications = <<>>
    /\ countdowns = 0
    /\ gameOver = FALSE
    /\ last = Result("connection", TRUE, "", 0)

(***************************************************************************)
(* create_team                                                             *)
(***************************************************************************)
\* uuidv4(): an id no live team has
FreshTeamId == CHOOSE id \in 1..(Cardinality(DOMAIN teams) + 1) : id \notin DOMAIN teams

CreateTeam(startingBalance) ==
    /\ Cardinality(DOMAIN teams) < MaxTeams
    /\ teams' = [id \in DOMAIN teams \cup {FreshTeamId} |->
                   IF id = FreshTeamId THEN NewTeam(startingBalance) ELSE teams[id]]
    /\ last' = Result("create_team", TRUE, "", 0)
    /\ UNCHANGED <<stocks, trades, tradeRequests, gameConfig, timerInterval,
                   activeIntervals, requestTimers, pendingTimeouts, notifications, countdowns, gameOver>>

(***************************************************************************)
(* update_stock_price                                                      *)
(***************************************************************************)
UpdateStockPrice(symbol, price) ==
    /\ stocks' = IF symbol \in DOMAIN stocks
                 THEN [stocks EXCEPT ![symbol] = price]
                 ELSE stocks
    /\ last' = Result("update_stock_price", TRUE, "", 0)
    /\ UNCHANGED <<teams, trades, tradeRequests, gameConfig, timerInterval,
                   activeIntervals, requestTimers, pendingTimeouts, notifications, countdowns, gameOver>>

(***************************************************************************)
(* toggle_circuit_freeze, toggle_market_trading                            *)
(***************************************************************************)
ToggleCircuitFreeze ==
    /\ gameConfig' = [gameConfig EXCEPT !.circuitLimitFrozen = ~@]
    /\ last' = Result("toggle_circuit_freeze", TRUE, "", 0)
    /\ UNCHANGED <<teams, stocks, trades, tradeRequests, timerInterval,
                   activeIntervals, requestTimers, pendingTimeouts, notifications, countdowns, gameOver>>

ToggleMarketTrading ==
    /\ gameConfig' = [gameConfig EXCEPT !.marketTradingEnabled = ~@]
    /\ last' = Result("toggle_market_trading", TRUE, "", 0)
    /\ UNCHANGED <<teams, stocks, trades, tradeRequests, timerInterval,
                   activeIntervals, requestTimers, pendingTimeouts, notifications, countdowns, gameOver>>

(***************************************************************************)
(* closeShortPositions, toggle_short_freeze                                *)
(***************************************************************************)
Reverse(seq) == [i \in 1..Len(seq) |-> seq[Len(seq) + 1 - i]]

RECURSIVE TotalCost(_)
TotalCost(records) ==
    IF records = <<>> THEN 0
    ELSE Head(records).quantity * Head(records).price + TotalCost(Tail(records))

\* the entries closeShortPositions acts on: if (stock && qty > 0)
CoveredEntries(book) ==
    SelectSeq(book, LAMBDA e : e.symbol \in DOMAIN stocks /\ ~e.qty.nan /\ e.qty.n > 0)

\* the records closeShortPositions(teamId) creates, in the order of the book
ForcedTrades(teamId) ==
    LET covered == CoveredEntries(teams[teamId].shortHoldings)
    IN  [i \in 1..Len(covered) |->
           Trade(teamId, "cover_short_forced", covered[i].symbol,
                 covered[i].qty.n, stocks[covered[i].symbol], 0)]

\* closeShortPositions with team.cash += totalCost for team.cash -= totalCost
closeShortPositionsCredits(teamId) ==
    [teams[teamId] EXCEPT !.cash = @ + TotalCost(ForcedTrades(teamId)),
                          !.trades = @ \o ForcedTrades(teamId),
                          !.shortHoldings = <<>>]

\* the team closeShortPositions(teamId) leaves
closeShortPositions(teamId) ==
    [teams[teamId] EXCEPT !.cash = @ - TotalCost(ForcedTrades(teamId)),
                          !.trades = @ \o ForcedTrades(teamId),
                          !.shortHoldings = <<>>]

\* the forced records of the teams 1..n, in the order they are created:
\* Object.keys(gameState.teams) lists the teams in creation order, which is
\* the order of their ids
RECURSIVE ForcedTradesUpTo(_)
ForcedTradesUpTo(n) ==
    IF n = 0 THEN <<>>
    ELSE ForcedTradesUpTo(n - 1)
         \o (IF n \in DOMAIN teams THEN ForcedTrades(n) ELSE <<>>)

ToggleShortFreeze ==
    /\ gameConfig' = [gameConfig EXCEPT !.shortSellingFrozen = ~@]
    /\ IF ~gameConfig.shortSellingFrozen
       THEN /\ teams' = [id \in DOMAIN teams |-> closeShortPositions(id)]
            /\ trades' = Reverse(ForcedTradesUpTo(MaxTeams)) \o trades
       ELSE UNCHANGED <<teams, trades>>
    /\ last' = Result("toggle_short_freeze", TRUE, "", 0)
    /\ UNCHANGED <<stocks, tradeRequests, timerInterval, activeIntervals,
                   requestTimers, pendingTimeouts, notifications, countdowns, gameOver>>

(***************************************************************************)
(* allocate_funds                                                          *)
(***************************************************************************)
\* AllocateFunds without gameState.trades.unshift(trade)
AllocateFundsNoLog(teamId, amount) ==
    IF teamId \notin DOMAIN teams
    THEN /\ last' = Result("allocate_funds", FALSE, "Team not found", 0)
         /\ UNCHANGED <<teams, stocks, trades, tradeRequests, gameConfig,
                        timerInterval, activeIntervals, requestTimers,
                        pendingTimeouts, notifications, countdowns, gameOver>>
    ELSE LET trade == Trade(teamId, "fund_allocation", "CASH", 1, amount, 0)
         IN  /\ teams' = [teams EXCEPT ![teamId].cash = @ + amount,
                                       ![teamId].trades = Append(@, trade)]
             /\ last' = Result("allocate_funds", TRUE, "", 0)
             /\ UNCHANGED <<stocks, trades, tradeRequests, gameConfig, timerInterval,
                            activeIntervals, requestTimers, pendingTimeouts,
                            notifications, countdowns, gameOver>>

AllocateFunds(teamId, amount) ==
    IF teamId \notin DOMAIN teams
    THEN /\ last' = Result("allocate_funds", FALSE, "Team not found", 0)
         /\ UNCHANGED <<teams, stocks, trades, tradeRequests, gameConfig,
                        timerInterval, activeIntervals, requestTimers,
                        pendingTimeouts, notifications, countdowns, gameOver>>
    ELSE LET trade == Trade(teamId, "fund_allocation", "CASH", 1, amount, 0)
         IN  /\ teams' = [teams EXCEPT ![teamId].cash = @ + amount,
                                       ![teamId].trades = Append(@, trade)]
             /\ trades' = <<trade>> \o trades
             /\ last' = Result("allocate_funds", TRUE, "", 0)
             /\ UNCHANGED <<stocks, tradeRequests, gameConfig, timerInterval,
                            activeIntervals, requestTimers, pendingTimeouts,
                            notifications, countdowns, gameOver>>

(***************************************************************************)
(* execute_trade                                                           *)
(***************************************************************************)
\* the error execute_trade reports for a known team and stock; "" is none
ExecuteTradeError(team, action, symbol, quantity, price) ==
    LET totalCost == quantity * price
    IN  IF action = "buy"
        THEN IF team.cash < totalCost THEN "Insufficient funds" ELSE ""
        ELSE IF action = "sell"
        THEN IF OrZero(team.holdings, symbol) < quantity
             THEN "Insufficient holdings" ELSE ""
        ELSE IF action = "short_sell"
        THEN IF gameConfig.shortSellingFrozen
             THEN "Short selling is currently frozen"
             ELSE IF gameConfig.phase # "trading"
             THEN "Short selling only allowed in trading phase"
             ELSE IF totalCost > team.cash
             THEN "Cannot short more than 100% of remaining cash"
             ELSE ""
        ELSE IF action = "cover_short"
        THEN IF OrZero(team.shortHoldings, symbol) < quantity
             THEN "Insufficient short positions"
             ELSE IF team.cash < totalCost
             THEN "Insufficient funds to cover short"
             ELSE ""
        ELSE ""

\* the ledger of the team after the mutation of a trade that passed the checks
ApplyTrade(team, action, symbol, quantity, price) ==
    LET totalCost == quantity * price
    IN  IF action = "buy"
        THEN [team EXCEPT
                !.cash = @ - totalCost,
                !.holdings = Put(@, symbol, Num(OrZero(@, symbol) + quantity))]
        ELSE IF action = "sell"
        THEN [team EXCEPT
                !.cash = @ + totalCost,
                !.holdings = DeleteIfZero(Put(@, symbol, Minus(@, symbol, quantity)),
                                          symbol)]
        ELSE IF action = "short_sell"
        THEN [team EXCEPT
                !.cash = @ + totalCost,
                !.shortHoldings = Put(@, symbol, Num(OrZero(@, symbol) + quantity))]
        ELSE IF action = "cover_short"
        THEN [team EXCEPT
                !.cash = @ - totalCost,
                !.shortHoldings = DeleteIfZero(Put(@, symbol, Minus(@, symbol, quantity)),
                                               symbol)]
        ELSE team

\* ExecuteTradeFails with the record of the refused trade pushed to the log
\* before the check returns
ExecuteTradeFailsAfterLogging(error) ==
    /\ last' = Result("execute_trade", FALSE, error, 0)
    /\ trades' = <<Trade(0, "refused", error, 0, 0, 0)>> \o trades
    /\ UNCHANGED <<teams, stocks, tradeRequests, gameConfig,
                   timerInterval, activeIntervals, requestTimers,
                   pendingTimeouts, notifications, countdowns, gameOver>>

\* execute_trade returns the error and changes nothing
ExecuteTradeFails(error) ==
    /\ last' = Result("execute_trade", FALSE, error, 0)
    /\ UNCHANGED <<teams, stocks, trades, tradeRequests, gameConfig,
                   timerInterval, activeIntervals, requestTimers,
                   pendingTimeouts, notifications, countdowns, gameOver>>

ExecuteTrade(teamId, action, symbol, quantity, price) ==
    IF teamId \notin DOMAIN teams \/ symbol \notin DOMAIN stocks
    THEN ExecuteTradeFails("Invalid team or stock")
    ELSE IF ExecuteTradeError(teams[teamId], action, symbol, quantity, price) # ""
    THEN ExecuteTradeFails(ExecuteTradeError(teams[teamId], action, symbol, quantity, price))
    ELSE LET trade == Trade(teamId, action, symbol, quantity, price, 0)
             team == ApplyTrade(teams[teamId], action, symbol, quantity, price)
         IN  /\ teams' = [teams EXCEPT
                            ![teamId] = [team EXCEPT !.trades = Append(@, trade)]]
             /\ trades' = <<trade>> \o trades
             /\ last' = Result("execute_trade", TRUE, "", 0)
             /\ UNCHANGED <<stocks, tradeRequests, gameConfig, timerInterval,
                            activeIntervals, requestTimers, pendingTimeouts,
                            notifications, countdowns, gameOver>>

(***************************************************************************)
(* checkCircuitLimit                                                       *)
(***************************************************************************)
\* OutsideCircuit with <= and >= for < and >: the edges of the band refused
OutsideCircuitAtEdges(currentPrice, proposedPrice) ==
    \/ proposedPrice * 100 <= currentPrice * 92
    \/ proposedPrice * 100 >= currentPrice * 108

\* proposedPrice < currentPrice * 0.92 || proposedPrice > currentPrice * 1.08,
\* both sides scaled by 100 to stay in the integers
OutsideCircuit(currentPrice, proposedPrice) ==
    \/ proposedPrice * 100 < currentPrice * 92
    \/ proposedPrice * 100 > currentPrice * 108

\* checkCircuitLimit(symbol, proposedPrice).valid
checkCircuitLimit(symbol, proposedPrice) ==
    IF gameConfig.circuitLimitFrozen
    THEN TRUE
    ELSE ~OutsideCircuit(stocks[symbol], proposedPrice)

(***************************************************************************)
(* send_trade_request and the expiry timeout it schedules                  *)
(***************************************************************************)
\* uuidv4(): an id no request has had
FreshRequestId == Cardinality(DOMAIN notifications) + 1

SendTradeRequestFails(error) ==
    /\ last' = Result("send_trade_request", FALSE, error, 0)
    /\ UNCHANGED <<teams, stocks, trades, tradeRequests, gameConfig,
                   timerInterval, activeIntervals, requestTimers,
                   pendingTimeouts, notifications, countdowns, gameOver>>

SendTradeRequest(fromTeamId, toTeamId, action, symbol, quantity, price) ==
    IF fromTeamId \notin DOMAIN teams \/ toTeamId \notin DOMAIN teams
       \/ symbol \notin DOMAIN stocks
    THEN SendTradeRequestFails("Invalid request")
    ELSE IF ~checkCircuitLimit(symbol, price)
    THEN SendTradeRequestFails("Price not obeying circuit limit")
    ELSE LET requestId == FreshRequestId
             request == [fromTeamId |-> fromTeamId, toTeamId |-> toTeamId,
                         action |-> action, symbol |-> symbol,
                         quantity |-> quantity, price |-> price]
         IN  /\ requestId <= MaxRequests
             /\ tradeRequests' = [id \in DOMAIN tradeRequests \cup {requestId} |->
                                    IF id = requestId THEN request
                                    ELSE tradeRequests[id]]
             /\ notifications' = [id \in DOMAIN notifications \cup {requestId} |->
                                    IF id = requestId THEN <<"trade_request_sent">>
                                    ELSE notifications[id]]
             /\ requestTimers' = requestTimers \cup {requestId}
             /\ pendingTimeouts' = pendingTimeouts \cup {requestId}
             /\ last' = Result("send_trade_request", TRUE, "", requestId)
             /\ UNCHANGED <<teams, stocks, trades, gameConfig, timerInterval,
                            activeIntervals, countdowns, gameOver>>

\* ExpireTradeRequest without delete gameState.tradeRequests[requestId]
ExpireTradeRequestKeepsRequest(requestId) ==
    /\ requestId \in pendingTimeouts
    /\ pendingTimeouts' = pendingTimeouts \ {requestId}
    /\ notifications' = [notifications EXCEPT
                           ![requestId] = Append(@, "trade_request_expired")]
    /\ last' = Result("request_timeout", TRUE, "", requestId)
    /\ UNCHANGED <<teams, stocks, trades, tradeRequests, gameConfig, timerInterval,
                   activeIntervals, requestTimers, countdowns, gameOver>>

\* the callback of setTimeout(..., 20000): it runs unless clearTimeout
\* cancelled it, and takes no look at the pending set before it notifies
ExpireTradeRequest(requestId) ==
    /\ requestId \in pendingTimeouts
    /\ pendingTimeouts' = pendingTimeouts \ {requestId}
    /\ tradeRequests' = [id \in DOMAIN tradeRequests \ {requestId} |-> tradeRequests[id]]
    /\ notifications' = [notifications EXCEPT
                           ![requestId] = Append(@, "trade_request_expired")]
    /\ last' = Result("request_timeout", TRUE, "", requestId)
    /\ UNCHANGED <<teams, stocks, trades, gameConfig, timerInterval,
                   activeIntervals, requestTimers, countdowns, gameOver>>

(***************************************************************************)
(* respond_trade_request                                                   *)
(***************************************************************************)
BuyerId(request) ==
    IF request.action = "buy" THEN request.fromTeamId ELSE request.toTeamId

SellerId(request) ==
    IF request.action = "buy" THEN request.toTeamId ELSE request.fromTeamId

\* the error an accepted request settles with; "" is none
SettlementError(request) ==
    IF teams[BuyerId(request)].cash < request.quantity * request.price
    THEN "Buyer has insufficient funds"
    ELSE IF OrZero(teams[SellerId(request)].holdings, request.symbol) < request.quantity
    THEN "Seller has insufficient holdings"
    ELSE ""

\* the buy record and the sell record of a settlement
BuyTrade(request) ==
    Trade(BuyerId(request), "buy", request.symbol, request.quantity,
          request.price, SellerId(request))

SellTrade(request) ==
    Trade(SellerId(request), "sell", request.symbol, request.quantity,
          request.price, BuyerId(request))

\* gameState.teams after the settlement: the statements of lines 496-528 in
\* their order, so that a buyer who is also the seller is one object
SettledTeams(request) ==
    LET b == BuyerId(request)
        s == SellerId(request)
        totalCost == request.quantity * request.price
        t1 == [teams EXCEPT ![b].cash = @ - totalCost]
        t2 == [t1 EXCEPT ![s].cash = @ + totalCost]
        t3 == [t2 EXCEPT ![b].holdings =
                 Put(@, request.symbol,
                     Num(OrZero(@, request.symbol) + request.quantity))]
        t4 == [t3 EXCEPT ![s].holdings =
                 Put(@, request.symbol, Minus(@, request.symbol, request.quantity))]
        t5 == [t4 EXCEPT ![s].holdings = DeleteIfZero(@, request.symbol)]
        t6 == [t5 EXCEPT ![b].trades = Append(@, BuyTrade(request))]
    IN  [t6 EXCEPT ![s].trades = Append(@, SellTrade(request))]

\* TakeRequest without delete gameState.tradeRequests[requestId]
TakeRequestKeepsRequest(requestId) ==
    /\ pendingTimeouts' = IF requestId \in requestTimers
                          THEN pendingTimeouts \ {requestId}
                          ELSE pendingTimeouts
    /\ requestTimers' = requestTimers \ {requestId}
    /\ tradeRequests' = tradeRequests

\* TakeRequest without clearTimeout(requestTimers[requestId])
TakeRequestKeepsTimeout(requestId) ==
    /\ pendingTimeouts' = pendingTimeouts
    /\ requestTimers' = requestTimers \ {requestId}
    /\ tradeRequests' = [id \in DOMAIN tradeRequests \ {requestId} |-> tradeRequests[id]]

\* what respond_trade_request does to the pending set and the timers once it
\* has found the request
TakeRequest(requestId) ==
    /\ pendingTimeouts' = IF requestId \in requestTimers
                          THEN pendingTimeouts \ {requestId}
                          ELSE pendingTimeouts
    /\ requestTimers' = requestTimers \ {requestId}
    /\ tradeRequests' = [id \in DOMAIN tradeRequests \ {requestId} |-> tradeRequests[id]]

\* RespondTradeRequest with the funds and holdings checks ahead of the
\* clearTimeout and the delete: a failed accept leaves the request pending
RespondTradeRequestChecksFirst(requestId, accept) ==
    IF requestId \notin DOMAIN tradeRequests
    THEN /\ last' = Result("respond_trade_request", FALSE,
                           "Request not found or expired", requestId)
         /\ UNCHANGED <<teams, stocks, trades, tradeRequests, gameConfig,
                        timerInterval, activeIntervals, requestTimers,
                        pendingTimeouts, notifications, countdowns, gameOver>>
    ELSE LET request == tradeRequests[requestId]
         IN  /\ UNCHANGED <<stocks, gameConfig, timerInterval, activeIntervals,
                            countdowns, gameOver>>
             /\ IF ~accept
                THEN /\ TakeRequest(requestId)
                     /\ notifications' = [notifications EXCEPT
                            ![requestId] = Append(@, "trade_request_cancelled")]
                     /\ last' = Result("respond_trade_request", TRUE, "", requestId)
                     /\ UNCHANGED <<teams, trades>>
                ELSE IF SettlementError(request) # ""
                THEN /\ last' = Result("respond_trade_request", FALSE,
                                       SettlementError(request), requestId)
                     /\ UNCHANGED <<teams, trades, tradeRequests, requestTimers,
                                    pendingTimeouts, notifications>>
                ELSE /\ TakeRequest(requestId)
                     /\ teams' = SettledTeams(request)
                     /\ trades' = <<SellTrade(request), BuyTrade(request)>> \o trades
                     /\ notifications' = [notifications EXCEPT
                            ![requestId] = Append(@, "trade_request_completed")]
                     /\ last' = Result("respond_trade_request", TRUE, "", requestId)

RespondTradeRequest(requestId, accept) ==
    IF requestId \notin DOMAIN tradeRequests
    THEN /\ last' = Result("respond_trade_request", FALSE,
                           "Request not found or expired", requestId)
         /\ UNCHANGED <<teams, stocks, trades, tradeRequests, gameConfig,
                        timerInterval, activeIntervals, requestTimers,
                        pendingTimeouts, notifications, countdowns, gameOver>>
    ELSE LET request == tradeRequests[requestId]
         IN  /\ TakeRequest(requestId)
             /\ UNCHANGED <<stocks, gameConfig, timerInterval, activeIntervals,
                            countdowns, gameOver>>
             /\ IF ~accept
                THEN /\ notifications' = [notifications EXCEPT
                            ![requestId] = Append(@, "trade_request_cancelled")]
                     /\ last' = Result("respond_trade_request", TRUE, "", requestId)
                     /\ UNCHANGED <<teams, trades>>
                ELSE IF SettlementError(request) # ""
                THEN /\ notifications' = [notifications EXCEPT
                            ![requestId] = Append(@, "trade_request_failed")]
                     /\ last' = Result("respond_trade_request", FALSE,
                                       SettlementError(request), requestId)
                     /\ UNCHANGED <<teams, trades>>
                ELSE /\ teams' = SettledTeams(request)
                     /\ trades' = <<SellTrade(request), BuyTrade(request)>> \o trades
                     /\ notifications' = [notifications EXCEPT
                            ![requestId] = Append(@, "trade_request_completed")]
                     /\ last' = Result("respond_trade_request", TRUE, "", requestId)

(***************************************************************************)
(* startTimer, handleTimerEnd, start_phase and the interval callback       *)
(***************************************************************************)
\* ClearTimerInterval without the clearInterval
ClearTimerIntervalSkipped == activeIntervals

\* the intervals left after if (timerInterval) clearInterval(timerInterval)
ClearTimerInterval ==
    IF timerInterval # 0 THEN activeIntervals \ {timerInterval} ELSE activeIntervals

\* the handle setInterval returns: one that no live interval has
FreshHandle ==
    CHOOSE h \in 1..(Cardinality(ClearTimerInterval) + 1) :
        /\ h \notin ClearTimerInterval
        /\ \A g \in 1..(h - 1) : g \in ClearTimerInterval

\* the intervals the event loop fires after startTimer()
startTimer == ClearTimerInterval \cup {FreshHandle}

\* handleTimerEnd with currentRound <= totalRounds for currentRound < totalRounds
handleTimerEndOneMore(config) ==
    IF config.phase = "portfolio_allocation"
    THEN [config EXCEPT !.phase = "waiting"]
    ELSE IF config.phase = "trading"
    THEN IF config.currentRound <= config.totalRounds
         THEN [config EXCEPT !.currentRound = @ + 1,
                             !.timeRemaining = config.tradingRoundTime]
         ELSE [config EXCEPT !.phase = "ended"]
    ELSE config

\* gameConfig after handleTimerEnd()
handleTimerEnd(config) ==
    IF config.phase = "portfolio_allocation"
    THEN [config EXCEPT !.phase = "waiting"]
    ELSE IF config.phase = "trading"
    THEN IF config.currentRound < config.totalRounds
         THEN [config EXCEPT !.currentRound = @ + 1,
                             !.timeRemaining = config.tradingRoundTime]
         ELSE [config EXCEPT !.phase = "ended"]
    ELSE config

\* whether handleTimerEnd() reaches its clearInterval(timerInterval)
EndsGame(config) ==
    config.phase = "trading" /\ ~(config.currentRound < config.totalRounds)

\* tradingRoundTime 0 stands for a payload without the field, too:
\* tradingRoundTime || duration
StartPhase(phase, duration, rounds, tradingRoundTime) ==
    /\ gameConfig' =
         [gameConfig EXCEPT
            !.phase = phase,
            !.timeRemaining = duration,
            !.currentRound = IF phase = "trading" THEN 1 ELSE 0,
            !.totalRounds = IF phase = "trading" THEN rounds ELSE 0,
            !.tradingRoundTime =
                IF phase = "trading"
                THEN (IF tradingRoundTime # 0 THEN tradingRoundTime ELSE duration)
                ELSE @,
            !.portfolioAllocationTime =
                IF phase = "portfolio_allocation" THEN duration ELSE @]
    /\ activeIntervals' = startTimer
    /\ timerInterval' = FreshHandle
    /\ countdowns' = 0
    /\ UNCHANGED gameOver
    /\ last' = Result("start_phase", TRUE, "", 0)
    /\ UNCHANGED <<teams, stocks, trades, tradeRequests, requestTimers,
                   pendingTimeouts, notifications>>

\* one run of the callback of setInterval(..., 1000) with handle h
Tick(h) ==
    /\ h \in activeIntervals
    /\ IF gameConfig.timeRemaining > 0
       THEN LET ticked == [gameConfig EXCEPT !.timeRemaining = @ - 1]
            IN  IF ticked.timeRemaining = 0
                THEN /\ gameConfig' = handleTimerEnd(ticked)
                     /\ activeIntervals' =
                          IF EndsGame(ticked)
                          THEN ClearTimerInterval
                          ELSE activeIntervals
                     /\ countdowns' = countdowns + 1
                     /\ gameOver' = (gameOver \/ EndsGame(ticked))
                ELSE /\ gameConfig' = ticked
                     /\ UNCHANGED <<activeIntervals, countdowns, gameOver>>
       ELSE UNCHANGED <<gameConfig, activeIntervals, countdowns, gameOver>>
    /\ last' = Result("tick", TRUE, "", 0)
    /\ UNCHANGED <<teams, stocks, trades, tradeRequests, timerInterval,
                   requestTimers, pendingTimeouts, notifications>>

(***************************************************************************)
(* reset_platform                                                          *)
(***************************************************************************)
\* ResetPlatform without Object.values(requestTimers).forEach(clearTimeout)
ResetPlatformKeepsTimeouts ==
    /\ activeIntervals' = ClearTimerInterval
    /\ requestTimers' = {}
    /\ teams' = <<>>
    /\ trades' = <<>>
    /\ tradeRequests' = <<>>
    /\ gameConfig' = InitialConfig
    /\ stocks' = InitialStocks
    /\ last' = Result("reset_platform", TRUE, "", 0)
    /\ countdowns' = 0
    /\ gameOver' = FALSE
    /\ UNCHANGED <<timerInterval, pendingTimeouts, notifications>>

ResetPlatform ==
    /\ activeIntervals' = ClearTimerInterval
    /\ pendingTimeouts' = pendingTimeouts \ requestTimers
    /\ requestTimers' = {}
    /\ teams' = <<>>
    /\ trades' = <<>>
    /\ tradeRequests' = <<>>
    /\ gameConfig' = InitialConfig
    /\ stocks' = InitialStocks
    /\ last' = Result("reset_platform", TRUE, "", 0)
    /\ countdowns' = 0
    /\ gameOver' = FALSE
    /\ UNCHANGED <<timerInterval, notifications>>

(***************************************************************************)
(* Specifications.  The handlers are the same in all of them; each draws   *)
(* the inputs that the handlers it is about need, and leaves out handlers  *)
(* that write none of the state its claims read: the countdown writes only *)
(* gameConfig and the interval, the expiry timeout only the pending set,   *)
(* the timers and the notifications.                                       *)
(*                                                                         *)
(* A handler that appends to the trade log runs only while the log holds   *)
(* fewer than MaxTrades records.                                           *)
(***************************************************************************)
LogHasRoom == Len(trades) < MaxTrades \/ trades' = trades

\* the orders teams place in Spec, all at the price 1000: action, symbol,
\* quantity
Orders ==
    {<<"buy", "HDFCBANK", 1>>, <<"buy", "HDFCBANK", 0>>,
     <<"sell", "HDFCBANK", 1>>,
     <<"short_sell", "HDFCBANK", 1>>, <<"short_sell", "TATAMOTORS", 1>>,
     <<"short_sell", "HDFCBANK", 0>>,
     <<"cover_short", "HDFCBANK", 1>>, <<"cover_short", "HDFCBANK", 0>>,
     <<"hold", "HDFCBANK", 1>>, <<"buy", UnknownSymbol, 1>>}

\* fewer than MaxPending requests are pending, or this step adds none
PendingHasRoom == Cardinality(DOMAIN tradeRequests') <= MaxPending

\* The ledger: every handler that writes a team's cash, books or history.
Next ==
    \/ \E b \in StartingBalances : CreateTeam(b)
    \/ ToggleShortFreeze
    \/ \E ph \in {"waiting", "trading"} : StartPhase(ph, 0, 0, 0)
    \/ \E t \in TeamIds, a \in Amounts : AllocateFunds(t, a) /\ LogHasRoom
    \/ \E t \in TeamIds, o \in Orders :
          ExecuteTrade(t, o[1], o[2], o[3], 1000) /\ LogHasRoom
    \/ \E f \in TeamIds, t \in TeamIds :
          SendTradeRequest(f, t, "sell", "HDFCBANK", 1, 1000) /\ PendingHasRoom
    \/ \E r \in RequestIds : RespondTradeRequest(r, TRUE) /\ LogHasRoom

Spec == Init /\ [][Next]_vars

\* Negotiated trades: the circuit limit at the proposal, prices that move
\* before the answer, and the settlement.
NextNegotiation ==
    \/ \E b \in StartingBalances : CreateTeam(b)
    \/ \E p \in StockPrices : UpdateStockPrice("HDFCBANK", p)
    \/ ToggleCircuitFreeze
    \/ \E t \in TeamIds : ExecuteTrade(t, "buy", "HDFCBANK", 1, 1000) /\ LogHasRoom
    \/ \E f \in TeamIds, t \in TeamIds, a \in RequestActions,
          q \in Quantities, p \in Prices :
          SendTradeRequest(f, t, a, "HDFCBANK", q, p) /\ PendingHasRoom
    \/ \E r \in RequestIds, acc \in BOOLEAN : RespondTradeRequest(r, acc) /\ LogHasRoom

SpecNegotiation == Init /\ [][NextNegotiation]_vars

\* The life of a request: the answer, the expiry timeout and the reset race.
NextRequests ==
    \/ \E b \in StartingBalances : CreateTeam(b)
    \/ \E t \in TeamIds : ExecuteTrade(t, "buy", "HDFCBANK", 1, 1000) /\ LogHasRoom
    \/ \E f \in TeamIds, t \in TeamIds, a \in RequestActions, q \in 1..2 :
          SendTradeRequest(f, t, a, "HDFCBANK", q, 1000)
    \/ \E r \in RequestIds, acc \in BOOLEAN : RespondTradeRequest(r, acc) /\ LogHasRoom
    \/ \E r \in RequestIds : ExpireTradeRequest(r)
    \/ ResetPlatform

SpecRequests == Init /\ [][NextRequests]_vars

\* node runs the callback of a timeout that was not cleared once its delay
\* has passed
SpecRequestsFair ==
    /\ Init
    /\ [][NextRequests]_vars
    /\ \A r \in RequestIds : WF_vars(ExpireTradeRequest(r))

\* The countdown: start_phase with every phase, the ticks and the reset.
NextTimer ==
    \/ \E ph \in Phases, d \in Durations, r \in Rounds, trt \in Durations :
          StartPhase(ph, d, r, trt)
    \/ \E h \in 1..2 : Tick(h)
    \/ ResetPlatform

SpecTimer == Init /\ [][NextTimer]_vars

\* Direct trades: buy and sell of one instrument at two prices.
NextTrade ==
    \/ \E b \in StartingBalances : CreateTeam(b)
    \/ \E t \in TeamIds, a \in {"buy", "sell"}, q \in Quantities, p \in StockPrices :
          ExecuteTrade(t, a, "HDFCBANK", q, p) /\ LogHasRoom

SpecTrade == Init /\ [][NextTrade]_vars

\* Short positions: short_sell and cover_short with quantities of either
\* sign, buy to spend cash, the phase and the freeze.
NextShort ==
    \/ \E b \in StartingBalances : CreateTeam(b)
    \/ \E ph \in {"waiting", "trading"} : StartPhase(ph, 0, 0, 0)
    \/ ToggleShortFreeze
    \/ \E t \in TeamIds : ExecuteTrade(t, "buy", "HDFCBANK", 1, 1000) /\ LogHasRoom
    \/ \E t \in TeamIds, a \in {"short_sell", "cover_short"}, q \in SignedQuantities :
          ExecuteTrade(t, a, "HDFCBANK", q, 1000) /\ LogHasRoom

SpecShort == Init /\ [][NextShort]_vars

\* The reset: a running countdown, pending requests, a moved price and the
\* three flags, and reset_platform at any moment.
NextReset ==
    \/ \E b \in StartingBalances : CreateTeam(b)
    \/ \E t \in TeamIds : ExecuteTrade(t, "buy", "HDFCBANK", 1, 1000) /\ LogHasRoom
    \/ \E f \in TeamIds, t \in TeamIds :
          SendTradeRequest(f, t, "sell", "HDFCBANK", 1, 1000) /\ PendingHasRoom
    \/ \E r \in RequestIds : ExpireTradeRequest(r)
    \/ UpdateStockPrice("HDFCBANK", 1100)
    \/ ToggleCircuitFreeze
    \/ ToggleMarketTrading
    \/ ToggleShortFreeze
    \/ StartPhase("trading", MaxTime, 1, 0)
    \/ \E h \in 1..2 : Tick(h)
    \/ ResetPlatform

SpecReset == Init /\ [][NextReset]_vars

\* One countdown: the first start_phase of the session and the ticks that
\* follow it, with no other start_phase and no reset; toggle_market_trading
\* may run in between.
NextCountdown ==
    \/ /\ last.event = "connection"
       /\ \E ph \in Phases, d \in Durations, r \in Rounds, trt \in RoundTimes :
             StartPhase(ph, d, r, trt)
    \/ \E h \in 1..2 : Tick(h)
    \/ ToggleMarketTrading

\* node runs the callback of a live interval every second
SpecCountdownFair ==
    /\ Init
    /\ [][NextCountdown]_vars
    /\ \A h \in 1..2 : WF_vars(Tick(h))

\* The two logs: every handler that records a trade, and the reset.
NextLog ==
    \/ \E b \in StartingBalances : CreateTeam(b)
    \/ StartPhase("trading", 0, 0, 0)
    \/ ToggleShortFreeze
    \/ \E t \in TeamIds : AllocateFunds(t, 500) /\ LogHasRoom
    \/ \E t \in TeamIds, a \in {"buy", "short_sell", "hold"} :
          ExecuteTrade(t, a, "HDFCBANK", 1, 1000) /\ LogHasRoom
    \/ \E f \in TeamIds, t \in TeamIds :
          SendTradeRequest(f, t, "sell", "HDFCBANK", 1, 1000) /\ PendingHasRoom
    \/ \E r \in RequestIds : RespondTradeRequest(r, TRUE) /\ LogHasRoom
    \/ ResetPlatform

SpecLog == Init /\ [][NextLog]_vars

(***************************************************************************)
(* The life of a trade request (SpecRequests).                             *)
(***************************************************************************)
OutcomeEvents ==
    {"trade_request_completed", "trade_request_cancelled",
     "trade_request_expired", "trade_request_failed"}

\* the events of `names` emitted about request r so far
Emitted(r, names) ==
    SelectSeq(notifications[r], LAMBDA e : e \in names)

\* request r was created and is no longer pending
Gone(r) == r \in DOMAIN notifications /\ r \notin DOMAIN tradeRequests

\* this step is respond_trade_request for request r
Responds(r) ==
    /\ last'.event = "respond_trade_request"
    /\ last'.requestId = r

\* C1 with the three outcomes completed, cancelled and expired only: a request
\* that is no longer pending has had exactly one of them.
C1_Original ==
    \A r \in DOMAIN notifications :
        Gone(r) =>
            Len(Emitted(r, {"trade_request_completed", "trade_request_cancelled",
                            "trade_request_expired"})) = 1

\* the events about a request: sent, then at most one outcome, and none while
\* it is pending
C1_Terminal ==
    \A r \in DOMAIN notifications :
        /\ notifications[r][1] = "trade_request_sent"
        /\ Len(Emitted(r, OutcomeEvents)) = Len(notifications[r]) - 1
        /\ Len(Emitted(r, OutcomeEvents)) <= 1
        /\ r \in DOMAIN tradeRequests => Emitted(r, OutcomeEvents) = <<>>

\* how a request leaves the pending set, and what follows
C1_Step ==
    \A r \in RequestIds :
        /\ (r \in DOMAIN tradeRequests /\ r \notin DOMAIN tradeRequests') =>
              \/ /\ last'.event = "reset_platform"
                 /\ notifications'[r] = notifications[r]
              \/ /\ last'.event \in {"respond_trade_request", "request_timeout"}
                 /\ last'.requestId = r
                 /\ Len(Emitted(r, OutcomeEvents)') = 1
        /\ Gone(r) => Gone(r)' /\ notifications'[r] = notifications[r]
        /\ (Gone(r) /\ Responds(r)) =>
              /\ last' = Result("respond_trade_request", FALSE,
                                "Request not found or expired", r)
              /\ UNCHANGED <<teams, stocks, trades, tradeRequests, gameConfig,
                             timerInterval, activeIntervals, requestTimers,
                             pendingTimeouts, notifications, countdowns, gameOver>>

\* C1: a pending request has had no outcome; a request leaves the
\* pending set either with exactly one outcome event among completed,
\* cancelled, expired and failed (an accept that fails on funds or holdings
\* consumes the request too), or with none when reset_platform discards it;
\* once gone it never returns and no further event is emitted about it; and
\* respond_trade_request for it fails with 'Request not found or expired'
\* and changes nothing else.
C1_Theorem == [](C1_Terminal) /\ [][C1_Step]_vars

\* a request that had an outcome, answered again and refused
C1_Witness ==
    /\ last = Result("respond_trade_request", FALSE, "Request not found or expired", 1)
    /\ 1 \in DOMAIN notifications
    /\ Len(Emitted(1, OutcomeEvents)) = 1

\* the answer came first
C2_RespondWins ==
    \A r \in DOMAIN notifications :
        Emitted(r, {"trade_request_completed", "trade_request_cancelled",
                    "trade_request_failed"}) # <<>> =>
            /\ r \notin pendingTimeouts
            /\ Emitted(r, {"trade_request_expired"}) = <<>>

\* the timeout came first
C2_ExpiryWins ==
    \A r \in DOMAIN notifications :
        Emitted(r, {"trade_request_expired"}) # <<>> =>
            /\ r \notin DOMAIN tradeRequests
            /\ r \notin pendingTimeouts
            /\ Len(notifications[r]) = 2

\* the answer takes the request and its timeout; after the expiry it is refused
C2_Step ==
    \A r \in RequestIds :
        /\ (r \in DOMAIN tradeRequests /\ Responds(r)) =>
              r \notin pendingTimeouts' /\ r \notin DOMAIN tradeRequests'
        /\ (r \in DOMAIN notifications /\ Responds(r)
            /\ Emitted(r, {"trade_request_expired"}) # <<>>) =>
              /\ last'.error = "Request not found or expired"
              /\ teams' = teams
              /\ trades' = trades
              /\ notifications' = notifications

\* C2: of the answer and the expiry of one request at most one takes effect.
\* Once respond_trade_request has taken the request (its event is cancelled,
\* failed or completed) the timeout is no longer scheduled and no
\* trade_request_expired is emitted; once the timeout has run, the request is
\* absent and an answer to it fails with 'Request not found or expired' and
\* leaves every ledger and the trade log alone.
C2_Theorem == [](C2_RespondWins /\ C2_ExpiryWins) /\ [][C2_Step]_vars

\* both orders of the race: request 1 expired and was answered afterwards,
\* request 2 was answered while its timeout was scheduled
C2_Witness ==
    /\ DOMAIN notifications = {1, 2}
    /\ notifications[1] = <<"trade_request_sent", "trade_request_expired">>
    /\ notifications[2] = <<"trade_request_sent", "trade_request_completed">>
    /\ last = Result("respond_trade_request", FALSE, "Request not found or expired", 1)

(***************************************************************************)
(* The circuit limit and the settlement (SpecNegotiation).                 *)
(***************************************************************************)
\* currentPrice * 0.92 <= price <= currentPrice * 1.08
InBand(symbol, price) ==
    /\ stocks[symbol] * 92 <= price * 100
    /\ price * 100 <= stocks[symbol] * 108

\* this step settles an accepted request: the ledgers are written
Settles ==
    /\ last'.event = "respond_trade_request"
    /\ last'.success
    /\ last'.requestId \in DOMAIN tradeRequests
    /\ "trade_request_completed" = notifications'[last'.requestId][2]

\* the state right after a settlement: its sell record heads the log
Settled ==
    /\ last.event = "respond_trade_request"
    /\ last.success
    /\ last.requestId \in DOMAIN notifications
    /\ Emitted(last.requestId, {"trade_request_completed"}) # <<>>

\* C3: when an accepted request settles, its price is within 0.92 to 1.08
\* times the instrument's price of that moment, unless circuitLimitFrozen is
\* true at that moment.
C3_SettlesInBand ==
    Settled =>
        \/ gameConfig.circuitLimitFrozen
        \/ InBand(trades[1].symbol, trades[1].price)

\* what send_trade_request does with each price, for known teams
C10_Step ==
    \A f \in TeamIds, t \in TeamIds, a \in RequestActions,
       q \in Quantities, p \in Prices :
        (/\ f \in DOMAIN teams
         /\ t \in DOMAIN teams
         /\ SendTradeRequest(f, t, a, "HDFCBANK", q, p)) =>
            IF gameConfig.circuitLimitFrozen \/ InBand("HDFCBANK", p)
            THEN /\ last'.success
                 /\ last'.requestId \notin DOMAIN tradeRequests
                 /\ DOMAIN tradeRequests' = DOMAIN tradeRequests \cup {last'.requestId}
                 /\ tradeRequests'[last'.requestId].price = p
                 /\ last'.requestId \in pendingTimeouts'
                 /\ notifications'[last'.requestId] = <<"trade_request_sent">>
            ELSE /\ last' = Result("send_trade_request", FALSE,
                                   "Price not obeying circuit limit", 0)
                 /\ UNCHANGED <<tradeRequests, requestTimers, pendingTimeouts,
                                notifications>>

\* C10: send_trade_request for known teams and a known symbol creates a
\* pending request, with its timeout and its notification, exactly when
\* circuitLimitFrozen is true or the price is within the band, edges
\* included; otherwise it fails with the circuit error and the pending set,
\* the timers and the notifications stay as they were.
C10_Theorem == [][C10_Step]_vars

\* a request at the upper edge, 1080 for a price of 1000, is pending, and a
\* later one was refused for its price
C10_Witness ==
    /\ last = Result("send_trade_request", FALSE, "Price not obeying circuit limit", 0)
    /\ ~gameConfig.circuitLimitFrozen
    /\ stocks["HDFCBANK"] = 1000
    /\ \E r \in DOMAIN tradeRequests : tradeRequests[r].price = 1080

\* the quantity a book holds of a symbol, as stored: a number or NaN
Quantity(book, symbol) ==
    IF Has(book, symbol) THEN book[IndexOf(book, symbol)].qty ELSE Num(0)

RECURSIVE SumOver(_, _)
\* the sum of f[id] over the ids
SumOver(f, ids) ==
    IF ids = {} THEN 0
    ELSE LET id == CHOOSE x \in ids : TRUE
         IN  f[id] + SumOver(f, ids \ {id})

TotalCash(ts) == SumOver([id \in DOMAIN ts |-> ts[id].cash], DOMAIN ts)

\* every team stores a number for the symbol
AllNumbers(ts, symbol) ==
    \A id \in DOMAIN ts : ~Quantity(ts[id].holdings, symbol).nan

TotalHeld(ts, symbol) ==
    SumOver([id \in DOMAIN ts |-> Quantity(ts[id].holdings, symbol).n], DOMAIN ts)

\* the settlement of `request` moved cash and holdings symmetrically
Symmetric(request) ==
    LET b == BuyerId(request)
        s == SellerId(request)
        symbol == request.symbol
        totalCost == request.quantity * request.price
    IN  /\ AllNumbers(teams, symbol) /\ AllNumbers(teams', symbol)
        /\ b # s =>
             /\ teams'[b].cash = teams[b].cash - totalCost
             /\ teams'[s].cash = teams[s].cash + totalCost
             /\ Quantity(teams'[b].holdings, symbol).n
                  = Quantity(teams[b].holdings, symbol).n + request.quantity
             /\ Quantity(teams'[s].holdings, symbol).n
                  = Quantity(teams[s].holdings, symbol).n - request.quantity
        /\ TotalCash(teams') = TotalCash(teams)
        /\ TotalHeld(teams', symbol) = TotalHeld(teams, symbol)
        /\ \A id \in DOMAIN teams \ {b, s} : teams'[id] = teams[id]

\* C4: a successful negotiated settlement debits the buyer's cash by
\* quantity * price and credits the seller's by the same amount, adds quantity
\* to the buyer's holdings of the symbol and takes it from the seller's, so
\* the cash of all teams and the long holdings of the symbol over all teams
\* add up to what they were, also when buyer and seller are one team.
C4_Symmetric ==
    [][Settles => Symmetric(tradeRequests[last'.requestId])]_vars

\* the same for the requests of a quantity of at least 1
C4_SymmetricFromOne ==
    [][(Settles /\ tradeRequests[last'.requestId].quantity >= 1)
          => Symmetric(tradeRequests[last'.requestId])]_vars

(***************************************************************************)
(* The ledger (Spec).                                                      *)
(***************************************************************************)
\* this step is a call that the handler refused: execute_trade with any of
\* its errors, or an accepted request that failed on funds or holdings
Refused ==
    \/ /\ last'.event = "execute_trade"
       /\ ~last'.success
    \/ /\ last'.event = "respond_trade_request"
       /\ last'.error \in {"Buyer has insufficient funds",
                           "Seller has insufficient holdings"}

\* C5: a refused execute_trade, and an accepted request refused for the
\* buyer's funds or the seller's holdings, change no team's cash, holdings,
\* shortHoldings or trade history and no entry of the global trade log.
C5_Theorem == [][Refused => (teams' = teams /\ trades' = trades)]_vars

\* a cover_short refused for the funds, after a short sale went through
C5_Witness ==
    /\ last = Result("execute_trade", FALSE, "Insufficient funds to cover short", 0)
    /\ trades # <<>>

\* C6: no team has a symbol in holdings or in shortHoldings with a quantity
\* that is not above zero.
C6_NoEmptyEntry ==
    \A id \in DOMAIN teams :
        /\ \A i \in 1..Len(teams[id].holdings) :
              LET qty == teams[id].holdings[i].qty IN ~qty.nan /\ qty.n > 0
        /\ \A i \in 1..Len(teams[id].shortHoldings) :
              LET qty == teams[id].shortHoldings[i].qty IN ~qty.nan /\ qty.n > 0

\* C7: every team's cash is at least 0.
C7_CashNotNegative == \A id \in DOMAIN teams : teams[id].cash >= 0

\* the entries of a book with a quantity above zero
Positive(book) == SelectSeq(book, LAMBDA e : ~e.qty.nan /\ e.qty.n > 0)

RECURSIVE ValueAtPrice(_)
\* what the entries cost at the instruments' prices of the state
ValueAtPrice(entries) ==
    IF entries = <<>> THEN 0
    ELSE Head(entries).qty.n * stocks[Head(entries).symbol]
         + ValueAtPrice(Tail(entries))

\* the number of the records in log[from..to] that equal record
Count(log, from, to, record) ==
    Cardinality({j \in from..to : log[j] = record})

\* the forced cover of the entry e of team id
ForcedCover(id, e) ==
    [teamId |-> id, action |-> "cover_short_forced", symbol |-> e.symbol,
     quantity |-> e.qty.n, price |-> stocks[e.symbol], counterparty |-> 0]

\* what a step of toggle_short_freeze does to the ledgers and the log
C8_Step ==
    last'.event = "toggle_short_freeze" =>
        IF ~gameConfig.shortSellingFrozen
        THEN /\ gameConfig'.shortSellingFrozen
             /\ DOMAIN teams' = DOMAIN teams
             /\ \A id \in DOMAIN teams :
                  LET short == Positive(teams[id].shortHoldings)
                      old == teams[id].trades
                      new == teams'[id].trades
                  IN  /\ teams'[id].cash = teams[id].cash - ValueAtPrice(short)
                      /\ teams'[id].shortHoldings = <<>>
                      /\ teams'[id].holdings = teams[id].holdings
                      /\ Len(new) = Len(old) + Len(short)
                      /\ SubSeq(new, 1, Len(old)) = old
                      /\ \A i \in 1..Len(short) :
                           /\ Count(new, Len(old) + 1, Len(new),
                                    ForcedCover(id, short[i])) = 1
                           /\ Count(trades', 1, Len(trades') - Len(trades),
                                    ForcedCover(id, short[i])) = 1
             /\ Len(trades') - Len(trades)
                  = SumOver([id \in DOMAIN teams |->
                               Len(Positive(teams[id].shortHoldings))],
                            DOMAIN teams)
             /\ SubSeq(trades', Len(trades') - Len(trades) + 1, Len(trades')) = trades
        ELSE /\ ~gameConfig'.shortSellingFrozen
             /\ teams' = teams
             /\ trades' = trades

\* C8: when toggle_short_freeze turns shortSellingFrozen on, every team pays
\* quantity * current price for every symbol it holds short, one
\* cover_short_forced record of that quantity and price per symbol is added
\* to its history and to the global log and nothing else is, and every
\* shortHoldings is empty afterwards; when it turns the flag off no ledger
\* changes and no record is added.
C8_Theorem == [][C8_Step]_vars

\* the freeze has just closed two short positions of one team
C8_Witness ==
    /\ last.event = "toggle_short_freeze"
    /\ gameConfig.shortSellingFrozen
    /\ Len(trades) >= 2
    /\ trades[1].action = "cover_short_forced"
    /\ trades[2].action = "cover_short_forced"
    /\ trades[1].teamId = trades[2].teamId
    /\ trades[1].symbol # trades[2].symbol

(***************************************************************************)
(* The rounds of the trading phase (SpecTimer).                            *)
(***************************************************************************)
\* this step is the tick that takes the countdown of a trading phase to zero
ReachesZero ==
    /\ last'.event = "tick"
    /\ gameConfig.phase = "trading"
    /\ gameConfig.timeRemaining = 1

\* what the step that takes the countdown to zero does to the round
RoundStep ==
    IF gameConfig.currentRound < gameConfig.totalRounds
    THEN /\ gameConfig'.currentRound = gameConfig.currentRound + 1
         /\ gameConfig'.timeRemaining = gameConfig.tradingRoundTime
         /\ gameConfig'.phase = "trading"
         /\ gameConfig'.totalRounds = gameConfig.totalRounds
    ELSE /\ gameConfig'.phase = "ended"
         /\ countdowns' = gameConfig.totalRounds

\* C9 as stated, for every number of rounds: in a trading phase currentRound
\* never exceeds totalRounds, a countdown that reaches zero below the last
\* round starts the next round, and one that reaches zero in the last round
\* ends the game after totalRounds countdowns.
C9_Original ==
    /\ [](gameConfig.phase = "trading"
            => gameConfig.currentRound <= gameConfig.totalRounds)
    /\ [][ReachesZero => RoundStep]_vars

\* C9: after start_phase(trading) with rounds = R >= 1, and until the next
\* start_phase or reset, currentRound never exceeds totalRounds; a countdown
\* that reaches zero with currentRound < totalRounds adds one to currentRound,
\* sets timeRemaining to tradingRoundTime and stays in trading; one that
\* reaches zero with currentRound = totalRounds ends the game, and it is the
\* R-th countdown to reach zero.
C9_Theorem ==
    /\ [](gameConfig.phase = "trading" /\ gameConfig.totalRounds >= 1
            => gameConfig.currentRound <= gameConfig.totalRounds)
    /\ [][ReachesZero /\ gameConfig.totalRounds >= 1 => RoundStep]_vars

\* a game of two rounds has ended on its second countdown
C9_Witness ==
    /\ last.event = "tick"
    /\ gameConfig.phase = "ended"
    /\ gameConfig.totalRounds = 2
    /\ gameConfig.currentRound = 2
    /\ countdowns = 2

(***************************************************************************)
(* Direct buy and sell (SpecTrade).                                        *)
(***************************************************************************)
\* what execute_trade buy and sell of q at p do to a known team
BuySellStep ==
    \A t \in DOMAIN teams, q \in Quantities, p \in StockPrices :
        LET cash == teams[t].cash
            held == Quantity(teams[t].holdings, "HDFCBANK")
            after == Quantity(teams'[t].holdings, "HDFCBANK")
        IN  /\ ExecuteTrade(t, "buy", "HDFCBANK", q, p) =>
                 IF cash >= q * p
                 THEN /\ last'.success
                      /\ teams'[t].cash = cash - q * p
                      /\ ~held.nan /\ after = Num(held.n + q)
                 ELSE /\ ~last'.success
                      /\ teams' = teams
            /\ ExecuteTrade(t, "sell", "HDFCBANK", q, p) =>
                 IF ~held.nan /\ held.n >= q
                 THEN /\ last'.success
                      /\ teams'[t].cash = cash + q * p
                      /\ after = Num(held.n - q)
                      /\ held.n - q = 0 => ~Has(teams'[t].holdings, "HDFCBANK")
                 ELSE /\ ~last'.success
                      /\ teams' = teams

\* a team that has bought q at p1 and then sold q at p2, and nothing else,
\* holds nothing and has q * (p2 - p1) more cash than it started with
RoundTrip ==
    \A t \in DOMAIN teams :
        LET h == teams[t].trades
        IN  (/\ Len(h) = 2
             /\ h[1].action = "buy" /\ h[2].action = "sell"
             /\ h[1].quantity = h[2].quantity) =>
                /\ teams[t].holdings = <<>>
                /\ \E b \in StartingBalances :
                      teams[t].cash = b + h[1].quantity * (h[2].price - h[1].price)

\* C11: for a known team and symbol, buy of q at p succeeds exactly when
\* cash >= q * p and then takes q * p from cash and adds q to the holdings;
\* sell of q at p succeeds exactly when the holdings are at least q and then
\* adds q * p to cash and takes q from the holdings, removing the entry at
\* zero; so buying q at p1 and selling q at p2 restores the holdings and
\* changes cash by q * (p2 - p1).
C11_BuySell == [](RoundTrip) /\ [][BuySellStep]_vars

(***************************************************************************)
(* Short selling (SpecShort).                                              *)
(***************************************************************************)
\* what execute_trade short_sell of q at 1000 does to a known team
ShortSellStep ==
    \A t \in DOMAIN teams, q \in SignedQuantities :
        ExecuteTrade(t, "short_sell", "HDFCBANK", q, 1000) =>
            /\ (\/ gameConfig.shortSellingFrozen
                \/ gameConfig.phase # "trading"
                \/ q * 1000 > teams[t].cash) =>
                   /\ ~last'.success
                   /\ teams' = teams
            /\ last'.success =>
                   /\ teams'[t].cash = teams[t].cash + q * 1000
                   /\ teams'[t].cash <= 2 * teams[t].cash

\* this step raises the quantity team t holds short of some symbol
ShortGrows(t) ==
    \E symbol \in Symbols :
        LET before == Quantity(teams[t].shortHoldings, symbol)
            after == Quantity(teams'[t].shortHoldings, symbol)
        IN  /\ Has(teams'[t].shortHoldings, symbol)
            /\ ~before.nan /\ ~after.nan /\ after.n > before.n

\* C12: short_sell is rejected whenever shortSellingFrozen is true, the phase
\* is not trading or quantity * price exceeds the team's cash; a successful
\* short_sell raises cash by quantity * price, at most doubling it; and no
\* step raises a team's short quantity unless the phase is trading and
\* shortSellingFrozen is false.
C12_ShortSell ==
    /\ [][ShortSellStep]_vars
    /\ [][\A t \in DOMAIN teams :
            (t \in DOMAIN teams' /\ ShortGrows(t)) =>
                (gameConfig.phase = "trading" /\ ~gameConfig.shortSellingFrozen)]_vars

(***************************************************************************)
(* The reset (SpecReset).                                                  *)
(***************************************************************************)
\* the state reset_platform leaves: the defaults, and no timer scheduled
ResetStep ==
    last'.event = "reset_platform" =>
        /\ teams' = <<>>
        /\ trades' = <<>>
        /\ tradeRequests' = <<>>
        /\ gameConfig' = [phase |-> "waiting", currentRound |-> 0,
                          totalRounds |-> 0, timeRemaining |-> 0,
                          portfolioAllocationTime |-> 600,
                          tradingRoundTime |-> 600,
                          circuitLimitFrozen |-> FALSE,
                          marketTradingEnabled |-> FALSE,
                          shortSellingFrozen |-> FALSE]
        /\ stocks' = [symbol \in Symbols |->
                        IF symbol = "HDFCBANK" THEN 1000 ELSE 400]
        /\ pendingTimeouts' = {}
        /\ activeIntervals' = {}

\* a timeout that runs belongs to a pending request, and a tick to the
\* countdown the last start_phase installed
TimerStep ==
    /\ last'.event = "request_timeout" => last'.requestId \in DOMAIN tradeRequests
    /\ \A h \in 1..2 : Tick(h) => h = timerInterval

\* C13: after reset_platform there are no teams, no trades and no pending
\* requests, gameConfig and the prices have their initial values, and no
\* timeout scheduled and no countdown started before the reset runs
\* afterwards.
C13_Theorem == [][ResetStep]_vars /\ [][TimerStep]_vars

\* a reset that found request 1 pending, a countdown installed and a log
C13_Witness ==
    /\ last.event = "reset_platform"
    /\ 1 \in DOMAIN notifications
    /\ notifications[1] = <<"trade_request_sent">>
    /\ timerInterval # 0

(***************************************************************************)
(* The ticker (SpecTimer).                                                 *)
(***************************************************************************)
\* C14: once the trading countdown has moved the phase to ended, and until
\* reset_platform runs, no tick changes timeRemaining, the phase or the round
\* counters.
C14_EndedIsTerminal ==
    [][(gameOver /\ last'.event = "tick") =>
          /\ gameConfig'.timeRemaining = gameConfig.timeRemaining
          /\ gameConfig'.phase = gameConfig.phase
          /\ gameConfig'.currentRound = gameConfig.currentRound
          /\ gameConfig'.totalRounds = gameConfig.totalRounds]_vars

\* C15: while the phase is waiting or ended a tick leaves timeRemaining as it
\* is, also after start_phase was called with that phase and a positive
\* duration.
C15_IdlePhasesNotTicked ==
    [][(last'.event = "tick" /\ gameConfig.phase \in {"waiting", "ended"}) =>
          gameConfig'.timeRemaining = gameConfig.timeRemaining]_vars

\* C16: at most one countdown interval is active; start_phase leaves exactly
\* the one it installs; and timeRemaining falls by at most 1 in a step, and
\* only in a tick of that interval.
C16_Theorem ==
    /\ [](Cardinality(activeIntervals) <= 1)
    /\ [][last'.event = "start_phase" => activeIntervals' = {timerInterval'}]_vars
    /\ [][\/ last'.event \in {"start_phase", "reset_platform"}
          \/ gameConfig'.timeRemaining >= gameConfig.timeRemaining
          \/ /\ gameConfig'.timeRemaining = gameConfig.timeRemaining - 1
             /\ Tick(timerInterval)]_vars

\* a trading countdown that superseded the one of a portfolio allocation
\* phase has ticked once
C16_Witness ==
    /\ last.event = "tick"
    /\ gameConfig.phase = "trading"
    /\ gameConfig.portfolioAllocationTime = 1
    /\ gameConfig.timeRemaining = 1
    /\ gameConfig.totalRounds = 2
    /\ activeIntervals = {timerInterval}

(***************************************************************************)
(* The expiry of a request (SpecRequestsFair).                             *)
(***************************************************************************)
\* the timeout of a request removes it from the pending set and emits
\* trade_request_expired about it
ExpiryStep ==
    last'.event = "request_timeout" =>
        LET r == last'.requestId
        IN  /\ r \notin DOMAIN tradeRequests'
            /\ notifications'[r] = Append(notifications[r], "trade_request_expired")

\* C17: every pending request is eventually absent from the pending set: if
\* neither respond_trade_request nor reset_platform removes it, its timeout
\* runs, removes it and emits trade_request_expired.
C17_Theorem ==
    /\ \A r \in RequestIds :
          (r \in DOMAIN tradeRequests) ~> (r \notin DOMAIN tradeRequests)
    /\ [][ExpiryStep]_vars

\* request 2 was left alone and its timeout has removed it
C17_Witness ==
    /\ last = Result("request_timeout", TRUE, "", 2)
    /\ notifications[2] = <<"trade_request_sent", "trade_request_expired">>
    /\ 2 \notin DOMAIN tradeRequests

(***************************************************************************)
(* The end of a countdown (SpecCountdownFair).                             *)
(***************************************************************************)
\* C18: with fair ticking and no other start_phase or reset, a portfolio
\* allocation phase with time remaining leads to waiting with timeRemaining
\* 0, a trading phase with time remaining and at least one round leads to
\* ended, and a tick at timeRemaining 0 (a phase started with duration 0)
\* changes nothing.
C18_CountdownEnds ==
    /\ (gameConfig.phase = "portfolio_allocation" /\ gameConfig.timeRemaining > 0)
          ~> (gameConfig.phase = "waiting" /\ gameConfig.timeRemaining = 0)
    /\ (/\ last.event = "start_phase"
        /\ gameConfig.phase = "trading"
        /\ gameConfig.timeRemaining > 0
        /\ gameConfig.totalRounds >= 1)
          ~> (gameConfig.phase = "ended")
    /\ [][(last'.event = "tick" /\ gameConfig.timeRemaining = 0)
             => gameConfig' = gameConfig]_vars

(***************************************************************************)
(* The trade log and the freeze (Spec).                                    *)
(***************************************************************************)
\* C19: every record of the global trade log has one of the actions buy,
\* sell, short_sell, cover_short, cover_short_forced and fund_allocation: an
\* execute_trade call with any other action string records no trade.
C19_KnownActions ==
    \A i \in 1..Len(trades) :
        trades[i].action \in {"buy", "sell", "short_sell", "cover_short",
                              "cover_short_forced", "fund_allocation"}

\* C20: while shortSellingFrozen is true every team's shortHoldings is empty.
C20_FrozenMeansNoShorts ==
    gameConfig.shortSellingFrozen =>
        \A id \in DOMAIN teams : teams[id].shortHoldings = <<>>

(***************************************************************************)
(* A failed accept (SpecRequests).                                         *)
(***************************************************************************)
\* the errors of an accept that finds the request and cannot settle it
SettlementErrors ==
    {"Buyer has insufficient funds", "Seller has insufficient holdings"}

\* an accept of the pending request r that fails on funds or holdings takes
\* the request and its timeout and emits trade_request_failed; a request that
\* has failed is answered with 'Request not found or expired' ever after
FailedAcceptStep ==
    \A r \in RequestIds :
        /\ (/\ r \in DOMAIN tradeRequests
            /\ Responds(r)
            /\ last'.error \in SettlementErrors) =>
               /\ r \notin DOMAIN tradeRequests'
               /\ r \notin pendingTimeouts'
               /\ notifications'[r] = Append(notifications[r], "trade_request_failed")
               /\ teams' = teams
               /\ trades' = trades
        /\ (/\ r \in DOMAIN notifications
            /\ Emitted(r, {"trade_request_failed"}) # <<>>
            /\ Responds(r)) =>
               /\ last' = Result("respond_trade_request", FALSE,
                                 "Request not found or expired", r)
               /\ teams' = teams
               /\ trades' = trades
               /\ notifications' = notifications

\* a request that has failed is neither pending nor scheduled to expire, and
\* no trade_request_expired was emitted about it
FailedIsConsumed ==
    \A r \in DOMAIN notifications :
        Emitted(r, {"trade_request_failed"}) # <<>> =>
            /\ r \notin DOMAIN tradeRequests
            /\ r \notin pendingTimeouts
            /\ notifications[r] = <<"trade_request_sent", "trade_request_failed">>

\* C21: an accept that fails with insufficient funds or insufficient holdings
\* still consumes the request: it is removed from the pending set and its
\* timeout is cancelled, so no trade_request_expired is emitted for it, and a
\* later respond_trade_request for it fails with 'Request not found or
\* expired', also once the seller or the buyer could settle.
C21_Theorem == [](FailedIsConsumed) /\ [][FailedAcceptStep]_vars

\* request 1 failed for the seller's holdings; a team has bought the
\* instrument since and the second accept found no request
C21_Witness ==
    /\ last = Result("respond_trade_request", FALSE, "Request not found or expired", 1)
    /\ 1 \in DOMAIN notifications
    /\ notifications[1] = <<"trade_request_sent", "trade_request_failed">>
    /\ \A id \in DOMAIN teams : Quantity(teams[id].holdings, "HDFCBANK") = Num(1)
    /\ DOMAIN teams # {}

(***************************************************************************)
(* The global log and the histories of the teams (SpecLog).                *)
(***************************************************************************)
\* the records of the global log that name team id, oldest first
RecordsOf(id) == Reverse(SelectSeq(trades, LAMBDA t : t.teamId = id))

\* C22: every record of the global log is in the history of exactly one
\* existing team, the one it names, and every record of a team's history is
\* in the global log, so the global log is as long as all histories together.
C22_Theorem ==
    /\ \A i \in 1..Len(trades) : trades[i].teamId \in DOMAIN teams
    /\ \A id \in DOMAIN teams : teams[id].trades = RecordsOf(id)
    /\ Len(trades) = SumOver([id \in DOMAIN teams |-> Len(teams[id].trades)],
                             DOMAIN teams)

\* a settlement between two teams on top of an earlier record: three
\* records in the log, in the histories of two teams
C22_Witness ==
    /\ Len(trades) >= 3
    /\ trades[1].action = "sell"
    /\ trades[2].action = "buy"
    /\ trades[1].counterparty = trades[2].teamId
    /\ trades[1].teamId # trades[2].teamId
    /\ \A id \in DOMAIN teams : teams[id].trades # <<>>
====
